---- MODULE Spec2Model ----
(***************************************************************************)
(* Model of EnvironmentService                                             *)
(* (apps/api/src/environment/service/environment.service.ts) on top of the *)
(* Environment table of the Prisma schema.                                 *)
(*                                                                         *)
(* Every service call is a process in a call slot.  Each `await` of the    *)
(* handler is one step, so that concurrent calls interleave exactly at the *)
(* points where the event loop can switch; the code that follows the last  *)
(* await (createEvent and the return) belongs to the step of that await.   *)
(* prisma.$transaction(ops) runs its statements on a private working copy  *)
(* of the table and publishes the copy on commit; while a transaction is   *)
(* open no other write statement runs (transactions are serialised), and   *)
(* readers see the committed table.                                        *)
(***************************************************************************)
EXTENDS Integers, Sequences, FiniteSets, TLC

(* ---------------------------- bounds ----------------------------------- *)
MaxEnvs  == 3      \* environment ids (cuid) handed out by the store
MaxCalls == 2      \* service calls started in one behaviour
NumSlots == 2      \* calls that can be in flight at the same time
MaxPage  == 1      \* page numbers 0..MaxPage of getEnvironmentsOfProject
MaxLimit == 2      \* page sizes 0..MaxLimit of getEnvironmentsOfProject

(* ---------------------------- domains ---------------------------------- *)
Undefined == "<undefined>"
Null      == "<null>"

Projects     == {"p1", "p2"}              \* rows of the Project table
ProjectIds   == Projects \cup {"p9"}      \* ids a caller can pass ("p9": no such row)
Users        == {"u1", "u2"}
Names        == {"a", "b"}
Descriptions == {"d1", "d2"}
EnvIds       == 1..MaxEnvs
Pages        == 0..MaxPage
Limits       == 0..MaxLimit
Sorts        == {"name", "id"}            \* unique within a project
Orders       == {"asc", "desc"}
Searches     == {"", "a", "A"}
Slots        == 1..NumSlots

CreateDtos == [name : Names,
               description : {"d1"},
               isDefault : {"true", "false"}]
UpdateDtos == [name : Names \cup {Undefined, ""},
               description : {"d2", Undefined},
               isDefault : {"true", "false", Undefined, Null}]
NoDto == [name |-> Undefined, description |-> Undefined, isDefault |-> Undefined]

NoEnvironment == [id |-> 0, projectId |-> "", name |-> "", description |-> Null,
                  isDefault |-> FALSE, lastUpdatedById |-> ""]

VARIABLES
  db,        \* committed Environment table: id -> row
  nextId,    \* next environment id the store hands out
  tx,        \* the open transaction: owner slot (0 = none) and working copy
  call,      \* per slot: the call in flight and its local variables
  started,   \* number of calls started so far
  events,    \* Event table, in insertion order
  response   \* the call that returned last and what it gave its caller

vars == <<db, nextId, tx, call, started, events, response>>

(* ------------------------- authority (collaborators) ------------------- *)
\* Authorities of a user in the workspace of a project: u1 may do everything
\* on environments; u2 may only read them in p1 and only delete them in p2.
EffectiveAuthorities(user, projectId) ==
  IF user = "u1"
    THEN {"CREATE_ENVIRONMENT", "READ_ENVIRONMENT", "UPDATE_ENVIRONMENT", "DELETE_ENVIRONMENT"}
  ELSE IF projectId = "p1" THEN {"READ_ENVIRONMENT"}
  ELSE {"DELETE_ENVIRONMENT"}

\* getProjectWithAuthority: "ok", or the failure it throws
GetProjectWithAuthority(user, projectId, authority) ==
  IF projectId \notin Projects THEN "NotFound"
  ELSE IF authority \notin EffectiveAuthorities(user, projectId) THEN "Forbidden"
  ELSE "ok"

\* getEnvironmentWithAuthority: "ok", or the failure it throws
GetEnvironmentWithAuthority(table, user, environmentId, authority) ==
  IF environmentId \notin DOMAIN table THEN "NotFound"
  ELSE IF authority \notin EffectiveAuthorities(user, table[environmentId].projectId)
         THEN "Forbidden"
  ELSE "ok"

\* the read operations asking for the authority of deleteEnvironment
ReadAuthority_AsDelete == "DELETE_ENVIRONMENT"

\* the authority getEnvironment and getEnvironmentsOfProject ask the resolver for
ReadAuthority == "READ_ENVIRONMENT"

\* the authority each operation asks the resolver for, with
\* deleteEnvironment asking for the authority of the read operations
RequiredAuthority_DeleteAsRead(op) ==
  CASE op = "create" -> "CREATE_ENVIRONMENT"
    [] op = "update" -> "UPDATE_ENVIRONMENT"
    [] op = "delete" -> "READ_ENVIRONMENT"
    [] OTHER         -> "READ_ENVIRONMENT"

\* the authority each operation asks the resolver for
RequiredAuthority(op) ==
  CASE op = "create" -> "CREATE_ENVIRONMENT"
    [] op = "update" -> "UPDATE_ENVIRONMENT"
    [] op = "delete" -> "DELETE_ENVIRONMENT"
    [] OTHER         -> ReadAuthority

(* ------------------------- store statements ---------------------------- *)
EnvsOf(table, projectId) == {i \in DOMAIN table : table[i].projectId = projectId}
DefaultsOf(table, projectId) == {i \in EnvsOf(table, projectId) : table[i].isDefault}

\* the row as the client returns it
Row(table, i) ==
  [id |-> i, projectId |-> table[i].projectId, name |-> table[i].name,
   description |-> table[i].description, isDefault |-> table[i].isDefault,
   lastUpdatedById |-> table[i].lastUpdatedById]

\* environmentExists with the projectId filter left out of the query
environmentExists_AnyProject(table, name, projectId) ==
  \E i \in DOMAIN table : table[i].name = name

\* environmentExists: findFirst({name, projectId}) is truthy
environmentExists(table, name, projectId) ==
  \E i \in EnvsOf(table, projectId) : table[i].name = name

\* prisma.environment.count({where: {projectId}})
CountEnvironments(table, projectId) == Cardinality(EnvsOf(table, projectId))

\* updateMany without its where clause: every row matches
InProject_Any(row, projectId) == TRUE

\* where: {projectId} of makeAllNonDefault's updateMany
InProject(row, projectId) == row.projectId = projectId

\* makeAllNonDefault that updates no row
makeAllNonDefault_None(table, projectId) == table

\* makeAllNonDefault: updateMany({where: {projectId}, data: {isDefault: false}})
makeAllNonDefault(table, projectId) ==
  [i \in DOMAIN table |->
     IF InProject(table[i], projectId)
       THEN [table[i] EXCEPT !.isDefault = FALSE]
       ELSE table[i]]

\* @@unique([projectId, name]) seen by a statement that gives row `self` this name
UniqueViolation(table, self, projectId, name) ==
  \E i \in EnvsOf(table, projectId) : i # self /\ table[i].name = name

\* the row prisma.environment.create inserts
CreateData(user, dto, projectId) ==
  [projectId |-> projectId,
   name |-> dto.name,
   description |-> IF dto.description = Undefined THEN Null ELSE dto.description,
   isDefault |-> (dto.isDefault = "true"),
   lastUpdatedById |-> user]

\* the isDefault value updateEnvironment puts in the update's data
UpdateIsDefault(dto, environment) ==
  IF dto.isDefault # Undefined /\ dto.isDefault # Null
    THEN (dto.isDefault = "true")
    ELSE environment.isDefault

\* the row after prisma.environment.update with updateEnvironment's data
UpdateData(row, user, dto, environment) ==
  [row EXCEPT
     !.name = IF dto.name = Undefined THEN @ ELSE dto.name,
     !.description = IF dto.description = Undefined THEN @ ELSE dto.description,
     !.isDefault = UpdateIsDefault(dto, environment),
     !.lastUpdatedById = user]

(* ------------------------- calls --------------------------------------- *)
IdleCall == [op |-> "none", pc |-> "idle", user |-> "", dto |-> NoDto,
             projectId |-> "", environmentId |-> 0, environment |-> NoEnvironment]

NoTx == [owner |-> 0, work |-> <<>>]

Free(c) == call[c].pc = "idle"

\* a call takes the lowest free slot
Takes(c) == Free(c) /\ \A d \in Slots : d < c => ~Free(d)

\* a new call with its arguments
NewCall(op, user, dto, projectId, environmentId) ==
  [IdleCall EXCEPT !.op = op, !.user = user, !.dto = dto,
                   !.projectId = projectId, !.environmentId = environmentId]

\* the caller and the query parameters of a read (none for a mutation)
NoQuery == [user |-> "", page |-> 0, limit |-> 0, sort |-> "", order |-> "",
            search |-> ""]

\* a finished call: the operation, the project and environment it was about
\* (as far as it got to know them), and the exception it threw or "ok"
\* data: the rows a read operation returned
Response(op, projectId, environmentId, result) ==
  [op |-> op, projectId |-> projectId,
   environmentId |-> environmentId, result |-> result, data |-> <<>>,
   query |-> NoQuery, message |-> ""]

\* what the caller user of a mutation gets; a ConflictException carries the
\* requested name in its message
Reply(user, name, op, projectId, environmentId, result) ==
  [Response(op, projectId, environmentId, result)
     EXCEPT !.query.user = user,
            !.message = IF result = "Conflict" THEN name ELSE ""]

\* creates that have not yet reached their insert
PendingCreates == {c \in Slots : call[c].op = "create"}

\* the table the statements of slot c's transaction work on
Work(c) == IF tx.owner = c THEN tx.work ELSE db

\* the statements run one by one outside a transaction
Uncommitted_WrittenThrough(committed, work) == work

\* the committed table while a $transaction holds the writes of its first
\* statement: they are not in it before the commit
Uncommitted(committed, work) == committed

\* the EventType each operation passes to createEvent, with
\* deleteEnvironment passing the type of updateEnvironment
EventTypeOf_DeleteAsUpdate(op) ==
  CASE op = "create" -> "ENVIRONMENT_ADDED"
    [] op = "update" -> "ENVIRONMENT_UPDATED"
    [] op = "delete" -> "ENVIRONMENT_UPDATED"

\* the EventType each operation passes to createEvent
EventTypeOf(op) ==
  CASE op = "create" -> "ENVIRONMENT_ADDED"
    [] op = "update" -> "ENVIRONMENT_UPDATED"
    [] op = "delete" -> "ENVIRONMENT_DELETED"

\* createEvent awaited, so that a failed insertion rejects the call
Returned_Awaited(ok) == IF ok THEN "ok" ELSE "EventError"

\* what a call that committed gives its caller: createEvent is not awaited,
\* the call returns whether or not the Event row gets inserted
Returned(ok) == "ok"

\* createEvent: appends one Event row unless the insertion fails (the failure
\* is logged and dropped, the caller is not told)
createEvent(log, ok, type, entityId, environmentId, name, projectId) ==
  IF ok
    THEN Append(log, [type |-> type,
                      sourceEnvironmentId |-> entityId,
                      metadata |-> [environmentId |-> environmentId,
                                    name |-> name, projectId |-> projectId]])
    ELSE log

\* onDelete: Cascade on Event.sourceEnvironment
SetNullEnvironment_Cascade(log, environmentId) ==
  SelectSeq(log, LAMBDA e : e.sourceEnvironmentId # environmentId)

\* onDelete: SetNull on Event.sourceEnvironment
SetNullEnvironment(log, environmentId) ==
  [k \in DOMAIN log |->
     IF log[k].sourceEnvironmentId = environmentId
       THEN [log[k] EXCEPT !.sourceEnvironmentId = 0]
       ELSE log[k]]

\* Environment tables a behaviour starts from: no environment at all, or
\* project p1 with its default environment "a" and a second environment "b"
\* (p2 has none)
InitialTables ==
  { <<>>,
    <<[projectId |-> "p1", name |-> "a", description |-> "d1",
       isDefault |-> TRUE, lastUpdatedById |-> "u1"],
      [projectId |-> "p1", name |-> "b", description |-> "d1",
       isDefault |-> FALSE, lastUpdatedById |-> "u1"]>> }

Init ==
  /\ db \in InitialTables
  /\ nextId = Cardinality(DOMAIN db) + 1
  /\ tx = NoTx
  /\ call = [c \in Slots |-> IdleCall]
  /\ started = 0
  /\ events = <<>>
  /\ response = Response("none", "", 0, "")

\* the error caught and dropped: the call ends as if it had succeeded
Throw_Swallow(c, error) ==
  /\ call' = [call EXCEPT ![c] = IdleCall]
  /\ response' = Reply(call[c].user, call[c].dto.name, call[c].op,
                     call[c].projectId, call[c].environmentId, "ok")

\* slot c's call ends by throwing error, having written nothing
Throw(c, error) ==
  /\ call' = [call EXCEPT ![c] = IdleCall]
  /\ response' = Reply(call[c].user, call[c].dto.name, call[c].op,
                     call[c].projectId, call[c].environmentId, error)

(* ------------------------- createEnvironment --------------------------- *)
\* entry and getProjectWithAuthority(CREATE_ENVIRONMENT)
CreateAuthority(c, user, dto, projectId) ==
  /\ Takes(c)
  /\ started < MaxCalls
  /\ nextId + Cardinality(PendingCreates) <= MaxEnvs
  /\ LET r == GetProjectWithAuthority(user, projectId, RequiredAuthority("create"))
     IN IF r = "ok"
          THEN /\ call' = [call EXCEPT ![c] =
                            [NewCall("create", user, dto, projectId, 0)
                               EXCEPT !.pc = "c_exists"]]
               /\ UNCHANGED response
          ELSE /\ response' = Reply(user, dto.name, "create", projectId, 0, r)
               /\ UNCHANGED call
  /\ started' = started + 1
  /\ UNCHANGED <<db, nextId, tx, events>>

\* await environmentExists(dto.name, projectId)
CreateExists(c) ==
  /\ call[c].pc = "c_exists"
  /\ IF environmentExists(db, call[c].dto.name, call[c].projectId)
       THEN Throw(c, "Conflict")
       ELSE /\ call' = [call EXCEPT ![c].pc = "c_tx"]
            /\ UNCHANGED response
  /\ UNCHANGED <<db, nextId, tx, started, events>>

\* $transaction, first statement when dto.isDefault: makeAllNonDefault(projectId)
CreateMakeAllNonDefault(c) ==
  /\ call[c].pc = "c_tx"
  /\ call[c].dto.isDefault = "true"
  /\ tx = NoTx
  /\ tx' = [owner |-> c, work |-> makeAllNonDefault(db, call[c].projectId)]
  /\ db' = Uncommitted(db, tx'.work)
  /\ call' = [call EXCEPT ![c].pc = "c_tx2"]
  /\ UNCHANGED <<nextId, started, events, response>>

\* $transaction, last statement prisma.environment.create, and the commit;
\* then createEvent(ENVIRONMENT_ADDED), not awaited, and return environment
CreateInsert(c) ==
  /\ \/ call[c].pc = "c_tx2"
     \/ call[c].pc = "c_tx" /\ call[c].dto.isDefault # "true" /\ tx = NoTx
  /\ LET table == Work(c)
         row   == CreateData(call[c].user, call[c].dto, call[c].projectId)
     IN IF UniqueViolation(table, 0, call[c].projectId, call[c].dto.name)
          THEN /\ Throw(c, "P2002")
               /\ UNCHANGED <<db, nextId, events>>
          ELSE /\ db' = (nextId :> row) @@ table
               /\ nextId' = nextId + 1
               /\ \E ok \in BOOLEAN :
                    /\ events' = createEvent(events, ok, EventTypeOf("create"), nextId,
                                             nextId, row.name, call[c].projectId)
                    /\ response' = Reply(call[c].user, row.name, "create",
                                         call[c].projectId, nextId, Returned(ok))
               /\ call' = [call EXCEPT ![c] = IdleCall]
  /\ tx' = NoTx
  /\ UNCHANGED started

(* ------------------------- updateEnvironment --------------------------- *)
\* dto.name tested for being defined only
Truthy_DefinedOnly(name) == name # Undefined

\* `dto.name &&`: an absent and an empty name are falsy
Truthy(name) == name # Undefined /\ name # ""

\* the name check placed after the last-environment guard: a request the
\* guard is about goes to the count first
UpdateEntry_GuardFirst(dto, environment) ==
  IF dto.isDefault = "false" /\ environment.isDefault THEN "u_count"
  ELSE IF Truthy(dto.name) /\ environment.name = dto.name THEN "Conflict"
  ELSE IF Truthy(dto.name) THEN "u_exists"
  ELSE "u_count"

\* where updateEnvironment goes once it has loaded the environment: the name
\* check throws at once when the name is the environment's own, awaits
\* environmentExists for another name, and is skipped for a falsy name
UpdateEntry(dto, environment) ==
  IF Truthy(dto.name) /\ environment.name = dto.name THEN "Conflict"
  ELSE IF Truthy(dto.name) THEN "u_exists"
  ELSE "u_count"

\* entry, getEnvironmentWithAuthority(UPDATE_ENVIRONMENT) and the first
\* operand of the name check (environment.name === dto.name)
UpdateAuthority(c, user, dto, environmentId) ==
  /\ Takes(c)
  /\ started < MaxCalls
  /\ LET r == GetEnvironmentWithAuthority(db, user, environmentId,
                                          RequiredAuthority("update"))
     IN IF r # "ok"
          THEN /\ response' = Reply(user, dto.name, "update", "", environmentId, r)
               /\ UNCHANGED call
        ELSE LET environment == Row(db, environmentId)
                 n == [NewCall("update", user, dto, environment.projectId, environmentId)
                         EXCEPT !.environment = environment]
             IN IF UpdateEntry(dto, environment) = "Conflict"
                  THEN /\ response' = Reply(user, dto.name, "update",
                                         environment.projectId, environmentId,
                                         "Conflict")
                       /\ UNCHANGED call
                  ELSE /\ call' = [call EXCEPT ![c] =
                                    [n EXCEPT !.pc = UpdateEntry(dto, environment)]]
                       /\ UNCHANGED response
  /\ started' = started + 1
  /\ UNCHANGED <<db, nextId, tx, events>>

\* await environmentExists(dto.name, environment.projectId)
UpdateExists(c) ==
  /\ call[c].pc = "u_exists"
  /\ IF environmentExists(db, call[c].dto.name, call[c].environment.projectId)
       THEN Throw(c, "Conflict")
       ELSE /\ call' = [call EXCEPT ![c].pc = "u_count"]
            /\ UNCHANGED response
  /\ UNCHANGED <<db, nextId, tx, started, events>>

\* the last-environment guard comparing the count with 0
LastEnvironmentGuard_OffByOne(dto, environment, count) ==
  dto.isDefault = "false" /\ environment.isDefault /\ count = 0

\* the last-environment guard of updateEnvironment
LastEnvironmentGuard(dto, environment, count) ==
  dto.isDefault = "false" /\ environment.isDefault /\ count = 1

\* await prisma.environment.count and the last-environment guard
UpdateCount(c) ==
  /\ call[c].pc = "u_count"
  /\ LET count == CountEnvironments(db, call[c].environment.projectId)
     IN IF LastEnvironmentGuard(call[c].dto, call[c].environment, count)
          THEN Throw(c, "BadRequest")
          ELSE /\ call' = [call EXCEPT ![c].pc = "u_tx"]
               /\ UNCHANGED response
  /\ UNCHANGED <<db, nextId, tx, started, events>>

\* $transaction, first statement when dto.isDefault: makeAllNonDefault
UpdateMakeAllNonDefault(c) ==
  /\ call[c].pc = "u_tx"
  /\ call[c].dto.isDefault = "true"
  /\ tx = NoTx
  /\ tx' = [owner |-> c, work |-> makeAllNonDefault(db, call[c].environment.projectId)]
  /\ db' = Uncommitted(db, tx'.work)
  /\ call' = [call EXCEPT ![c].pc = "u_tx2"]
  /\ UNCHANGED <<nextId, started, events, response>>

\* $transaction, last statement prisma.environment.update, and the commit;
\* then createEvent(ENVIRONMENT_UPDATED), not awaited, and return updatedEnvironment
UpdateWrite(c) ==
  /\ \/ call[c].pc = "u_tx2"
     \/ call[c].pc = "u_tx" /\ call[c].dto.isDefault # "true" /\ tx = NoTx
  /\ LET table == Work(c)
         id    == call[c].environmentId
     IN IF id \notin DOMAIN table
          THEN /\ Throw(c, "P2025")
               /\ UNCHANGED <<db, events>>
        ELSE IF /\ call[c].dto.name # Undefined
                /\ UniqueViolation(table, id, table[id].projectId, call[c].dto.name)
          THEN /\ Throw(c, "P2002")
               /\ UNCHANGED <<db, events>>
        ELSE /\ db' = [table EXCEPT ![id] =
                         UpdateData(@, call[c].user, call[c].dto, call[c].environment)]
             /\ \E ok \in BOOLEAN :
                  /\ events' = createEvent(events, ok, EventTypeOf("update"), id,
                                           id, db'[id].name, db'[id].projectId)
                  /\ response' = Reply(call[c].user, call[c].dto.name, "update",
                                       call[c].projectId, id, Returned(ok))
             /\ call' = [call EXCEPT ![c] = IdleCall]
  /\ tx' = NoTx
  /\ UNCHANGED <<nextId, started>>

(* ------------------------- deleteEnvironment --------------------------- *)
\* deleteEnvironment without its default check
DefaultGuard_Never(environment) == FALSE

\* the default check of deleteEnvironment
DefaultGuard(environment) == environment.isDefault

\* entry, getEnvironmentWithAuthority(DELETE_ENVIRONMENT) and the default check
DeleteAuthority(c, user, environmentId) ==
  /\ Takes(c)
  /\ started < MaxCalls
  /\ LET r == GetEnvironmentWithAuthority(db, user, environmentId,
                                          RequiredAuthority("delete"))
     IN IF r # "ok"
          THEN /\ response' = Reply(user, "", "delete", "", environmentId, r)
               /\ UNCHANGED call
        ELSE LET environment == Row(db, environmentId)
             IN IF DefaultGuard(environment)
                  THEN /\ response' = Reply(user, "", "delete", environment.projectId,
                                         environmentId, "BadRequest")
                       /\ UNCHANGED call
                  ELSE /\ call' = [call EXCEPT ![c] =
                                    [NewCall("delete", user, NoDto, environment.projectId,
                                             environmentId)
                                       EXCEPT !.environment = environment,
                                              !.pc = "d_delete"]]
                       /\ UNCHANGED response
  /\ started' = started + 1
  /\ UNCHANGED <<db, nextId, tx, events>>

\* await prisma.environment.delete({where: {id: environmentId}}); then
\* createEvent(ENVIRONMENT_DELETED), not awaited, and return
DeleteWrite(c) ==
  /\ call[c].pc = "d_delete"
  /\ tx = NoTx
  /\ LET id == call[c].environmentId
     IN IF id \notin DOMAIN db
          THEN /\ Throw(c, "P2025")
               /\ UNCHANGED <<db, events>>
          ELSE /\ db' = [i \in DOMAIN db \ {id} |-> db[i]]
               /\ \E ok \in BOOLEAN :
                    /\ events' = createEvent(SetNullEnvironment(events, id), ok,
                                             EventTypeOf("delete"), 0,
                                             call[c].environment.id,
                                             call[c].environment.name,
                                             call[c].projectId)
                    /\ response' = Reply(call[c].user, "", "delete",
                                         call[c].projectId, id, Returned(ok))
               /\ call' = [call EXCEPT ![c] = IdleCall]
  /\ UNCHANGED <<nextId, tx, started>>

(* ------------------------- read operations ----------------------------- *)
\* getEnvironment: getEnvironmentWithAuthority(READ_ENVIRONMENT), return it
GetEnvironment(user, environmentId) ==
  /\ LET r == GetEnvironmentWithAuthority(db, user, environmentId,
                                          RequiredAuthority("get"))
         q == [NoQuery EXCEPT !.user = user]
     IN response' =
          IF r = "ok"
            THEN [Response("get", db[environmentId].projectId, environmentId, "ok")
                    EXCEPT !.data = <<Row(db, environmentId)>>, !.query = q]
          ELSE IF r = "Forbidden"
            THEN [Response("get", db[environmentId].projectId, environmentId, r)
                    EXCEPT !.query = q]
          ELSE [Response("get", "", environmentId, r) EXCEPT !.query = q]
  /\ UNCHANGED <<db, nextId, tx, call, started, events>>

\* name: {contains: search}, for the names of the model, which have at most
\* one character: every name contains "", and a one-letter search only itself
Contains(name, search) == search = "" \/ name = search

\* position of a name in the store's ordering of strings
Collate(name) == CASE name = "" -> 0 [] name = "A" -> 1 [] name = "a" -> 2
                   [] name = "b" -> 3

\* orderBy: {[sort]: order}: the sort key of a row
SortKey(table, i, sort) == IF sort = "name" THEN Collate(table[i].name) ELSE i

RECURSIVE Sorted(_, _, _)
\* the rows S of the table in ascending order of the sort key
Sorted(table, S, sort) ==
  IF S = {} THEN <<>>
  ELSE LET m == CHOOSE i \in S :
                  \A j \in S : SortKey(table, i, sort) <= SortKey(table, j, sort)
       IN <<Row(table, m)>> \o Sorted(table, S \ {m}, sort)

Reverse(seq) == [k \in 1..Len(seq) |-> seq[Len(seq) + 1 - k]]

\* skip computed for page numbers that start at 1
Skip_OneOrigin(page, limit) == (page + 1) * limit

\* skip: page * limit
Skip(page, limit) == page * limit

\* prisma.environment.findMany({where: {projectId, name: {contains: search}},
\*                              skip, take, orderBy: {[sort]: order}})
findMany(table, projectId, search, skip, take, sort, order) ==
  LET S   == {i \in EnvsOf(table, projectId) : Contains(table[i].name, search)}
      asc == Sorted(table, S, sort)
      all == IF order = "asc" THEN asc ELSE Reverse(asc)
      to  == IF skip + take < Len(all) THEN skip + take ELSE Len(all)
  IN SubSeq(all, skip + 1, to)

\* getEnvironmentsOfProject: getProjectWithAuthority(READ_ENVIRONMENT), then
\* findMany
GetEnvironmentsOfProject(user, projectId, page, limit, sort, order, search) ==
  /\ LET r == GetProjectWithAuthority(user, projectId, RequiredAuthority("list"))
         q == [user |-> user, page |-> page, limit |-> limit, sort |-> sort,
               order |-> order, search |-> search]
     IN response' =
          IF r = "ok"
            THEN [Response("list", projectId, 0, "ok")
                    EXCEPT !.data = findMany(db, projectId, search,
                                             Skip(page, limit), limit, sort, order),
                           !.query = q]
            ELSE [Response("list", projectId, 0, r) EXCEPT !.query = q]
  /\ UNCHANGED <<db, nextId, tx, call, started, events>>

(* ------------------------- specification ------------------------------- *)
Next ==
  \/ \E c \in Slots, user \in Users, dto \in CreateDtos, projectId \in ProjectIds :
       CreateAuthority(c, user, dto, projectId)
  \/ \E c \in Slots : CreateExists(c)
  \/ \E c \in Slots : CreateMakeAllNonDefault(c)
  \/ \E c \in Slots : CreateInsert(c)
  \/ \E c \in Slots, user \in Users, dto \in UpdateDtos, environmentId \in EnvIds :
       UpdateAuthority(c, user, dto, environmentId)
  \/ \E c \in Slots : UpdateExists(c)
  \/ \E c \in Slots : UpdateCount(c)
  \/ \E c \in Slots : UpdateMakeAllNonDefault(c)
  \/ \E c \in Slots : UpdateWrite(c)
  \/ \E c \in Slots, user \in Users, environmentId \in EnvIds :
       DeleteAuthority(c, user, environmentId)
  \/ \E c \in Slots : DeleteWrite(c)

Spec == Init /\ [][Next]_vars

\* The read operations write nothing, so they are checked on their own, from
\* every table that respects @@unique([projectId, name]).
ReadRows == [projectId : Projects, name : Names \cup {""}, description : {"d1"},
             isDefault : BOOLEAN, lastUpdatedById : {"u1"}]

ReadTables ==
  UNION { {t \in [S -> ReadRows] :
             \A i, j \in S : (i # j /\ t[i].projectId = t[j].projectId)
                                => t[i].name # t[j].name}
          : S \in SUBSET EnvIds }

InitRead ==
  /\ db \in ReadTables
  /\ nextId = MaxEnvs + 1
  /\ tx = NoTx
  /\ call = [c \in Slots |-> IdleCall]
  /\ started = 0
  /\ events = <<>>
  /\ response = Response("none", "", 0, "")

\* one read of the table; a read changes nothing a later read looks at
NextRead ==
  \/ \E user \in Users, environmentId \in EnvIds :
       /\ response.op = "none"
       /\ GetEnvironment(user, environmentId)
  \/ \E user \in Users, projectId \in ProjectIds, page \in Pages, limit \in Limits,
        sort \in Sorts, order \in Orders, search \in Searches :
       /\ response.op = "none"
       /\ GetEnvironmentsOfProject(user, projectId, page, limit, sort, order, search)

ReadSpec == InitRead /\ [][NextRead]_vars

(* ------------------------- properties ---------------------------------- *)
Idle == \A c \in Slots : Free(c)

\* C1: between completed calls (no call in flight, no open transaction) every
\* project that has at least one environment has exactly one environment
\* with isDefault = true.
C1_ExactlyOneDefault ==
  Idle => \A p \in Projects :
            EnvsOf(db, p) # {} => Cardinality(DefaultsOf(db, p)) = 1

\* C2: no committed table has two or more default environments in one
\* project, whatever the interleaving of calls with atomic transactions.
C2_AtMostOneDefault ==
  \A p \in Projects : Cardinality(DefaultsOf(db, p)) <= 1

\* C3: while createEnvironment with isDefault = true runs its transaction on
\* a project whose committed table shows exactly one default, every step of
\* the call (makeAllNonDefault, then the insert and commit) leaves the
\* committed table, which is what readers see, with exactly one default in
\* that project: neither zero nor two defaults are visible between the writes.
C3_DefaultSwitchAtomic ==
  [][\A c \in Slots :
       ( /\ call[c].op = "create"
         /\ call[c].dto.isDefault = "true"
         /\ call[c].pc \in {"c_tx", "c_tx2"}
         /\ call'[c] # call[c]
         /\ Cardinality(DefaultsOf(db, call[c].projectId)) = 1 )
       => Cardinality(DefaultsOf(db', call[c].projectId)) = 1]_vars

\* the transaction of such a create is between its two writes: the working
\* copy has no default, the committed table still has the old one
C3_Witness ==
  \E c \in Slots :
    /\ call[c].op = "create"
    /\ call[c].pc = "c_tx2"
    /\ tx.owner = c
    /\ Cardinality(DefaultsOf(db, call[c].projectId)) = 1
    /\ DefaultsOf(tx.work, call[c].projectId) = {}

\* C4: no step removes an environment whose stored isDefault is true.
C4_DefaultNeverDeleted ==
  [][\A i \in DOMAIN db : i \notin DOMAIN db' => ~db[i].isDefault]_vars

\* C5: deleteEnvironment by an authorised user on an environment that is
\* default throws BadRequest ('Cannot delete the default environment'); the
\* table, the open transaction and the event log are unchanged and the call
\* is over (it writes nothing later).
C5_DeleteDefaultFails ==
  [][\A c \in Slots, user \in Users, id \in EnvIds :
       ( /\ DeleteAuthority(c, user, id)
         /\ GetEnvironmentWithAuthority(db, user, id, "DELETE_ENVIRONMENT") = "ok"
         /\ db[id].isDefault )
       => /\ response' = Reply(user, "", "delete", db[id].projectId, id, "BadRequest")
          /\ db' = db
          /\ events' = events
          /\ tx' = tx
          /\ call' = call]_vars

\* a delete of the sole, default environment of a project was refused and
\* the environment is still there
C5_Witness ==
  /\ response.op = "delete"
  /\ response.result = "BadRequest"
  /\ response.environmentId \in DOMAIN db
  /\ db[response.environmentId].isDefault
  /\ EnvsOf(db, response.projectId) = {response.environmentId}

\* C6: an updateEnvironment with isDefault = false that reaches the
\* last-environment guard (the name check runs before it) for an environment
\* it loaded as default and that is the only environment of its project
\* throws BadRequest ('Cannot make the last environment non-default'); the
\* table (name, description, isDefault, lastUpdatedBy) and the event log are
\* unchanged and the call is over.
C6_LastNonDefaultFails ==
  [][\A c \in Slots :
       ( /\ UpdateCount(c)
         /\ call[c].dto.isDefault = "false"
         /\ call[c].environment.isDefault
         /\ CountEnvironments(db, call[c].environment.projectId) = 1 )
       => /\ response' = Reply(call[c].user, "", "update", call[c].projectId,
                               call[c].environmentId, "BadRequest")
          /\ db' = db
          /\ events' = events
          /\ tx' = tx
          /\ call'[c] = IdleCall]_vars

\* an update of the sole, default environment of a project was refused and
\* the environment is still default
C6_Witness ==
  /\ response.op = "update"
  /\ response.result = "BadRequest"
  /\ response.environmentId \in DOMAIN db
  /\ db[response.environmentId].isDefault
  /\ EnvsOf(db, response.projectId) = {response.environmentId}

\* C7: the write of an updateEnvironment with isDefault = false never
\* changes the table when its target is, at the time of the write, default
\* and the only environment of its project.
C7_CountLiveAtWrite ==
  [][\A c \in Slots :
       ( /\ UpdateWrite(c)
         /\ call[c].dto.isDefault = "false"
         /\ call[c].environmentId \in DOMAIN db
         /\ db[call[c].environmentId].isDefault
         /\ EnvsOf(db, db[call[c].environmentId].projectId) = {call[c].environmentId} )
       => db' = db]_vars

\* C8: a createEnvironment whose name check finds the name in its project
\* throws Conflict, and the table, the open transaction and the event log are
\* unchanged (also with isDefault = true); when the name is used in no
\* environment of its project (it may be used in another project) the name
\* check lets the call go on to its transaction.
C8_CreateNameConflict ==
  [][\A c \in Slots :
       CreateExists(c) =>
         LET name == call[c].dto.name
             p    == call[c].projectId
         IN /\ (\E i \in DOMAIN db : db[i].projectId = p /\ db[i].name = name)
                 => /\ response' = Reply(call[c].user, name, "create", p, 0, "Conflict")
                    /\ call'[c] = IdleCall
                    /\ db' = db
                    /\ events' = events
                    /\ tx' = tx
            /\ (\A i \in DOMAIN db : db[i].name = name => db[i].projectId # p)
                 => /\ call'[c].pc = "c_tx"
                    /\ response' = response]_vars

\* a create was refused with Conflict and its project still has its default
C8_Witness ==
  /\ response.op = "create"
  /\ response.result = "Conflict"
  /\ DefaultsOf(db, response.projectId) # {}

\* C9: no call ends with the store's unique-constraint violation on
\* (projectId, name); a name collision always ends in Conflict.
C9_CollisionIsConflict ==
  response.result # "P2002"

\* C10: a successful updateEnvironment that omits isDefault (undefined or
\* null) leaves the stored isDefault as it was immediately before the write,
\* and an omitted name or description keeps the stored value.
C10_OmittedFieldsKept ==
  [][\A c \in Slots :
       (UpdateWrite(c) /\ response'.result = "ok") =>
         LET id  == call[c].environmentId
             dto == call[c].dto
         IN /\ dto.isDefault \in {Undefined, Null} => db'[id].isDefault = db[id].isDefault
            /\ dto.name = Undefined => db'[id].name = db[id].name
            /\ dto.description = Undefined => db'[id].description = db[id].description]_vars

\* slot c's call takes the step that runs its write (the single statement or
\* the last statement of its transaction)
Writes(c) == CreateInsert(c) \/ UpdateWrite(c) \/ DeleteWrite(c)

\* the store accepts that write: no unique-constraint violation, and the row
\* to update or delete exists
StoreAccepts(c) ==
  LET id == call[c].environmentId
  IN CASE call[c].op = "create" ->
            ~\E i \in DOMAIN Work(c) : /\ Work(c)[i].projectId = call[c].projectId
                                       /\ Work(c)[i].name = call[c].dto.name
       [] call[c].op = "update" ->
            /\ id \in DOMAIN Work(c)
            /\ call[c].dto.name = Undefined
                 \/ ~\E i \in DOMAIN Work(c) :
                       /\ i # id
                       /\ Work(c)[i].projectId = Work(c)[id].projectId
                       /\ Work(c)[i].name = call[c].dto.name
       [] call[c].op = "delete" -> id \in DOMAIN db
       [] OTHER -> FALSE

\* the last Event row is the one the operation op on environment id records
LastEventIs(log, op, id, name, projectId) ==
  /\ Len(log) > 0
  /\ log[Len(log)].type = (CASE op = "create" -> "ENVIRONMENT_ADDED"
                             [] op = "update" -> "ENVIRONMENT_UPDATED"
                             [] op = "delete" -> "ENVIRONMENT_DELETED")
  /\ log[Len(log)].metadata =
       [environmentId |-> id, name |-> name, projectId |-> projectId]

\* C11: every createEnvironment, updateEnvironment or deleteEnvironment call
\* that returns successfully has added exactly one Event row, of type
\* ENVIRONMENT_ADDED, ENVIRONMENT_UPDATED or ENVIRONMENT_DELETED, whose
\* metadata has the id, the name and the projectId of the affected
\* environment.
C11_ExactlyOneEvent ==
  [][\A c \in Slots :
       (Writes(c) /\ response'.result = "ok") =>
         LET id == response'.environmentId
         IN /\ Len(events') = Len(events) + 1
            /\ LastEventIs(events', call[c].op, id,
                           IF call[c].op = "delete" THEN db[id].name ELSE db'[id].name,
                           call[c].projectId)]_vars

\* C11, a failed insertion excepted: a successful call adds at most one Event
\* row (none when the insertion of the row fails); a row it adds has the type of the operation
\* and the id, name and projectId of the affected environment (for a delete:
\* the name the call loaded before it deleted the row).
C11_AtMostOneEvent ==
  [][\A c \in Slots :
       (Writes(c) /\ response'.result = "ok") =>
         LET id == response'.environmentId
         IN \/ Len(events') = Len(events)
            \/ /\ Len(events') = Len(events) + 1
               /\ LastEventIs(events', call[c].op, id,
                              IF call[c].op = "delete" THEN call[c].environment.name
                                                       ELSE db'[id].name,
                              call[c].projectId)]_vars

\* the call that returned last succeeded and its Event row is the last one
C11_Witness ==
  /\ response.result = "ok"
  /\ response.op \in {"create", "update", "delete"}
  /\ Len(events) > 0
  /\ events[Len(events)].type = EventTypeOf(response.op)
  /\ events[Len(events)].metadata.environmentId = response.environmentId

\* C12: the Event row is written only by the step that commits the mutation,
\* at most once (no retry), and whether or not it gets written the mutation
\* is in the committed table and the call returns its success result.
C12_EventBestEffort ==
  [][\A c \in Slots :
       Writes(c) =>
         LET id == call[c].environmentId
         IN /\ Len(events') > Len(events) => StoreAccepts(c)
            /\ StoreAccepts(c) =>
                 /\ response'.result = "ok"
                 /\ call'[c] = IdleCall
                 /\ Len(events') <= Len(events) + 1
                 /\ CASE call[c].op = "create" ->
                           /\ nextId \in DOMAIN db'
                           /\ db'[nextId].name = call[c].dto.name
                           /\ db'[nextId].projectId = call[c].projectId
                      [] call[c].op = "update" ->
                           /\ id \in DOMAIN db'
                           /\ db'[id].lastUpdatedById = call[c].user
                           /\ call[c].dto.name # Undefined => db'[id].name = call[c].dto.name
                      [] call[c].op = "delete" -> id \notin DOMAIN db']_vars

\* a create returned successfully, its row is in the table, and no Event row
\* was recorded for it
C12_Witness ==
  /\ response.op = "create"
  /\ response.result = "ok"
  /\ response.environmentId \in DOMAIN db
  /\ \A k \in DOMAIN events :
       events[k].metadata.environmentId # response.environmentId

\* C13: a user without READ_ENVIRONMENT in the workspace of project P gets
\* Forbidden and no row from getEnvironment for every environment of P and
\* from getEnvironmentsOfProject for P.
C13_NoReadWithoutAuthority ==
  ( /\ response.op \in {"get", "list"}
    /\ response.projectId \in Projects
    /\ "READ_ENVIRONMENT"
         \notin EffectiveAuthorities(response.query.user, response.projectId) )
  => /\ response.result = "Forbidden"
     /\ response.data = <<>>

\* getEnvironment on an existing environment was refused
C13_Witness ==
  /\ response.op = "get"
  /\ response.result = "Forbidden"
  /\ response.data = <<>>
  /\ response.environmentId \in DOMAIN db
  /\ db[response.environmentId].projectId = response.projectId

\* the slots a call has just walked into: it passed the checks of its entry
Entered == {c \in Slots : Free(c) /\ call'[c].pc # "idle"}

\* the step is the entry of a call that ended there, by throwing
ThrewAtEntry == started' = started + 1 /\ call' = call

\* C14: createEnvironment, updateEnvironment and deleteEnvironment check the
\* authority first: when the project or environment of a starting call does
\* not exist the call ends at once with NotFound, when its user lacks
\* CREATE_ / UPDATE_ / DELETE_ENVIRONMENT with Forbidden, whatever else the
\* request would run into (so no such call goes on, or ends with Conflict or
\* BadRequest), and the table, the event log, the open transaction and the
\* other calls are unchanged.
C14_AuthorityFirst ==
  [][started' = started + 1 =>
       LET new    == IF Entered = {} THEN response'
                     ELSE LET n == call'[CHOOSE c \in Entered : TRUE]
                          IN Reply(n.user, "", n.op, n.projectId, n.environmentId, "")
           user   == new.query.user
           exists == IF new.op = "create" THEN new.projectId \in Projects
                     ELSE new.environmentId \in DOMAIN db
           needed == CASE new.op = "create" -> "CREATE_ENVIRONMENT"
                       [] new.op = "update" -> "UPDATE_ENVIRONMENT"
                       [] new.op = "delete" -> "DELETE_ENVIRONMENT"
           held   == EffectiveAuthorities(user,
                       IF new.op = "create" THEN new.projectId
                       ELSE db[new.environmentId].projectId)
       IN /\ ~exists => /\ ThrewAtEntry
                        /\ response'.result = "NotFound"
                        /\ UNCHANGED <<db, events, tx>>
          /\ (exists /\ needed \notin held)
               => /\ ThrewAtEntry
                  /\ response'.result = "Forbidden"
                  /\ UNCHANGED <<db, events, tx>>]_vars

\* a delete of a default environment ended with Forbidden (a caller with the
\* authority would have got BadRequest)
C14_Witness ==
  /\ response.op = "delete"
  /\ response.result = "Forbidden"
  /\ response.environmentId \in DOMAIN db
  /\ db[response.environmentId].isDefault

\* C15: for an authorised caller getEnvironmentsOfProject returns the
\* environments of P whose name contains search, in the order of the sort
\* field, from position page * limit on, at most limit of them: the k-th row
\* returned is the matching row of P that has exactly page * limit + k - 1
\* matching rows of P before it in that order.
C15_ListIsPage ==
  ( /\ response.op = "list"
    /\ response.projectId \in Projects
    /\ "READ_ENVIRONMENT"
         \in EffectiveAuthorities(response.query.user, response.projectId) )
  => LET q == response.query
         R == response.data
         M == {i \in DOMAIN db : /\ db[i].projectId = response.projectId
                                 /\ q.search = "" \/ db[i].name = q.search}
         Precedes(j, i) ==
           IF q.order = "asc" THEN SortKey(db, j, q.sort) < SortKey(db, i, q.sort)
                              ELSE SortKey(db, j, q.sort) > SortKey(db, i, q.sort)
         Rank(i) == Cardinality({j \in M : Precedes(j, i)})
         rest == Cardinality(M) - q.page * q.limit
     IN /\ response.result = "ok"
        /\ Len(R) = IF rest <= 0 THEN 0
                    ELSE IF rest < q.limit THEN rest ELSE q.limit
        /\ \A k \in 1..Len(R) :
             /\ R[k].id \in M
             /\ R[k] = Row(db, R[k].id)
             /\ Rank(R[k].id) = q.page * q.limit + k - 1

\* a list call returned the second page, of one row, of a project that has
\* three environments
C15_Witness ==
  /\ response.op = "list"
  /\ response.result = "ok"
  /\ response.query.page = 1
  /\ Len(response.data) = 1
  /\ Cardinality(EnvsOf(db, response.projectId)) = 3

\* C16: no step removes an Event row or changes its type or metadata; the
\* only change to a recorded row is that its environment reference becomes
\* null when that environment is deleted.
C16_EventsAppendOnly ==
  [][/\ Len(events') >= Len(events)
     /\ \A k \in 1..Len(events) :
          /\ events'[k].type = events[k].type
          /\ events'[k].metadata = events[k].metadata
          /\ \/ events'[k].sourceEnvironmentId = events[k].sourceEnvironmentId
             \/ /\ events'[k].sourceEnvironmentId = 0
                /\ events[k].sourceEnvironmentId \in DOMAIN db
                /\ events[k].sourceEnvironmentId \notin DOMAIN db']_vars

\* the row recorded for a create or update is still there after its
\* environment was deleted, with a null reference
C16_Witness ==
  \E k \in DOMAIN events :
    /\ events[k].type \in {"ENVIRONMENT_ADDED", "ENVIRONMENT_UPDATED"}
    /\ events[k].sourceEnvironmentId = 0
    /\ events[k].metadata.environmentId \notin DOMAIN db

\* C17: an authorised updateEnvironment whose name is the environment's
\* current name (and not empty) throws Conflict, whatever its other fields,
\* and changes nothing; with an absent or empty name the call goes straight
\* to the count, without the name check.  Stated over the two ways an entry
\* can end: an update that goes on does not carry the environment's own name,
\* and is at the count when its name is absent or empty; an authorised update
\* of an existing environment that ends at entry ends with Conflict, for a
\* name that is not empty and is the environment's, with nothing changed.
C17_SameNameConflict ==
  [][started' = started + 1 =>
       /\ \A c \in Entered :
            call'[c].op = "update" =>
              LET dto == call'[c].dto
              IN /\ ~( /\ dto.name \notin {Undefined, ""}
                       /\ dto.name = db[call'[c].environmentId].name )
                 /\ dto.name \in {Undefined, ""} => call'[c].pc = "u_count"
                 /\ dto.name \notin {Undefined, ""} => call'[c].pc = "u_exists"
       /\ ( /\ ThrewAtEntry
            /\ response'.op = "update"
            /\ response'.environmentId \in DOMAIN db
            /\ "UPDATE_ENVIRONMENT"
                 \in EffectiveAuthorities(response'.query.user,
                                          db[response'.environmentId].projectId) )
            => /\ response'.result = "Conflict"
               /\ response'.message \notin {Undefined, ""}
               /\ response'.message = db[response'.environmentId].name
               /\ UNCHANGED <<db, events, tx>>]_vars

\* an update of the only environment of its project ended with Conflict
C17_Witness ==
  /\ response.op = "update"
  /\ response.result = "Conflict"
  /\ response.environmentId \in DOMAIN db
  /\ response.message = db[response.environmentId].name
  /\ EnvsOf(db, response.projectId) = {response.environmentId}

\* C18: right after a createEnvironment or updateEnvironment with
\* isDefault = true commits, its environment is default and no other
\* environment of the project is.
C18_OnlyTargetDefault ==
  [][\A c \in Slots :
       ( /\ CreateInsert(c) \/ UpdateWrite(c)
         /\ call[c].dto.isDefault = "true"
         /\ response'.result = "ok" )
       => LET id == response'.environmentId
          IN DefaultsOf(db', db'[id].projectId) = {id}]_vars

\* a create has just made its environment the default of a project that has
\* other environments
C18_Witness ==
  /\ response.op = "create"
  /\ response.result = "ok"
  /\ response.environmentId \in DOMAIN db
  /\ db[response.environmentId].isDefault
  /\ EnvsOf(db, response.projectId) # {response.environmentId}
  /\ DefaultsOf(db, response.projectId) = {response.environmentId}

\* C19: in updateEnvironment the name check comes before the last-environment
\* guard and both before any write: every update that is at or past the guard
\* has passed the own-name check (so a request with the environment's own
\* name and isDefault = false on the sole, default environment has ended with
\* Conflict, never BadRequest); a failing environmentExists check ends the
\* call with Conflict; and a call that ends with Conflict or at the guard with
\* BadRequest has run no makeAllNonDefault and no update: it owns no
\* transaction and the table is untouched.
C19_NameCheckBeforeGuard ==
  [][/\ \A c \in Slots :
          /\ (call[c].op = "update" /\ call[c].pc # "u_exists")
               => ~( /\ call[c].dto.name \notin {Undefined, ""}
                     /\ call[c].dto.name = call[c].environment.name )
          /\ ( /\ UpdateExists(c)
               /\ \E i \in DOMAIN db : /\ db[i].projectId = call[c].projectId
                                       /\ db[i].name = call[c].dto.name )
               => /\ response'.result = "Conflict"
                  /\ call'[c] = IdleCall
                  /\ tx.owner # c
                  /\ UNCHANGED <<db, events, tx>>
          /\ ( /\ UpdateCount(c)
               /\ call'[c] = IdleCall )
               => /\ response'.result = "BadRequest"
                  /\ tx.owner # c
                  /\ UNCHANGED <<db, events, tx>>
     /\ ( /\ ThrewAtEntry
          /\ response'.op = "update"
          /\ response'.result = "Conflict" )
          => UNCHANGED <<db, events, tx>>]_vars

\* an update of the sole, default environment of a project ended with Conflict
C19_Witness ==
  /\ response.op = "update"
  /\ response.result = "Conflict"
  /\ response.environmentId \in DOMAIN db
  /\ db[response.environmentId].isDefault
  /\ EnvsOf(db, response.projectId) = {response.environmentId}

\* C20: an Event row is added only by a step that commits a mutation; a call
\* that ends with NotFound, Forbidden, Conflict or BadRequest, or whose write
\* the store rejects, adds no Event row and leaves the table unchanged; a
\* rejected write ends the call with the store's error (no retry) and closes
\* its transaction without publishing it.
C20_EventOnlyOnCommit ==
  [][/\ Len(events') > Len(events)
          => /\ response'.result = "ok"
             /\ \E c \in Slots : Writes(c) /\ StoreAccepts(c)
     /\ \A c \in Slots :
          /\ ( /\ call[c].pc # "idle"
               /\ call'[c] = IdleCall
               /\ response'.result # "ok" )
               => UNCHANGED <<db, events>>
          /\ (Writes(c) /\ ~StoreAccepts(c))
               => /\ call'[c] = IdleCall
                  /\ response'.result \in {"P2002", "P2025"}
                  /\ tx' = NoTx
                  /\ UNCHANGED <<db, events>>
     /\ (started' = started + 1 /\ call' = call)
          => /\ response'.result \in {"NotFound", "Forbidden", "Conflict", "BadRequest"}
             /\ UNCHANGED <<db, events, tx>>]_vars

\* a call ended with the error of the store
C20_Witness ==
  /\ response.result \in {"P2002", "P2025"}
  /\ response.op \in {"create", "update", "delete"}
  /\ tx = NoTx

\* C21: operations on one project never change another project's
\* environments: a step that changes the table is the write of a call on
\* some project P, and every environment of another project is there before
\* and after it with all its fields (isDefault included) unchanged; and no
\* step changes the projectId of an environment.
C21_OtherProjectsUntouched ==
  [][/\ \A i \in DOMAIN db \cap DOMAIN db' : db'[i].projectId = db[i].projectId
     /\ db' # db
          => \E c \in Slots :
               /\ Writes(c)
               /\ \A i \in DOMAIN db \cup DOMAIN db' :
                    (IF i \in DOMAIN db THEN db[i].projectId
                                        ELSE db'[i].projectId) # call[c].projectId
                      => /\ i \in DOMAIN db
                         /\ i \in DOMAIN db'
                         /\ db'[i] = db[i]]_vars

\* an update has made its environment the default of its project, clearing
\* the flag of another environment there, while another project keeps its
\* own default
C21_Witness ==
  /\ response.op = "update"
  /\ response.result = "ok"
  /\ response.environmentId \in DOMAIN db
  /\ DefaultsOf(db, response.projectId) = {response.environmentId}
  /\ \E j \in EnvsOf(db, response.projectId) :
       j < response.environmentId /\ ~db[j].isDefault
  /\ \E q \in Projects \ {response.projectId} : DefaultsOf(db, q) # {}

====
